---- MODULE Spec2Model ----
(***************************************************************************)
(* The chat turn of the gemini-code-plugin extension: the startChat        *)
(* command, the message handler it registers with                          *)
(* panel.webview.onDidReceiveMessage (the instruction extractor) and       *)
(* processInstruction (the instruction dispatcher), with the host          *)
(* collaborators (file store, document store, editor, terminal,            *)
(* notification sink, generative model) as the environment.                *)
(*                                                                         *)
(* Every `await` of the source is a step boundary: the part of a function  *)
(* that runs between two awaits is one atomic action, and a host operation *)
(* settles (resolves or rejects) in an action of its own.                  *)
(***************************************************************************)
EXTENDS Integers, Sequences, FiniteSets, TLC

(***************************************************************************)
(* Bounds of the model.                                                    *)
(***************************************************************************)
\* The longest JSON array a response carries.
MaxBatch == 2

(***************************************************************************)
(* Instruction payloads: the values JSON.parse can hand to                 *)
(* processInstruction.  An object is the set `has` of the keys it carries  *)
(* and their values; a key outside `has` reads as undefined.  Paths and    *)
(* commands are strings, file contents and search strings are sequences of *)
(* characters.                                                             *)
(***************************************************************************)
Keys == {"action", "filePath", "oldPath", "newPath", "command",
         "content", "oldString", "newString"}

Actions == {"createFile", "deleteFile", "renameFile", "modifyFile", "runShellCommand"}

Blank ==
    [kind |-> "object", has |-> {}, action |-> "", filePath |-> "", oldPath |-> "",
     newPath |-> "", command |-> "", content |-> <<>>, oldString |-> <<>>,
     newString |-> <<>>]

\* The fields the prompt documents for each action.
Required(a) ==
    CASE a = "createFile" -> {"filePath", "content"}
      [] a = "deleteFile" -> {"filePath"}
      [] a = "renameFile" -> {"oldPath", "newPath"}
      [] a = "modifyFile" -> {"filePath", "oldString", "newString"}
      [] a = "runShellCommand" -> {"command"}
      [] OTHER -> {}

\* An object carrying every key, with the action a.
Full(a) ==
    [kind |-> "object", has |-> Keys, action |-> a, filePath |-> "/p", oldPath |-> "/p",
     newPath |-> "/q", command |-> "ls", content |-> <<"x">>, oldString |-> <<"a">>,
     newString |-> <<"b">>]

\* The object i without the key k.
Drop(i, k) == [i EXCEPT !.has = @ \ {k}, ![k] = Blank[k]]

\* The object i restricted to the keys ks.
Keep(i, ks) ==
    [k \in DOMAIN i |->
        IF k = "has" THEN i.has \cap ks
        ELSE IF k \in Keys /\ k \notin ks THEN Blank[k]
        ELSE i[k]]

\* The complete instruction of action a, as the prompt documents it.
Complete(a) == Keep(Full(a), {"action"} \cup Required(a))

NullValue == [Blank EXCEPT !.kind = "null"]
NumberValue == [Blank EXCEPT !.kind = "number"]

\* The payload elements the model draws from.
Instructions ==
    {Complete(a) : a \in Actions}
    \cup {Drop(Complete(a), k) : a \in Actions, k \in Keys \ {"action"}}
    \cup {[Complete("createFile") EXCEPT !.content = <<>>],
          [Complete("createFile") EXCEPT !.filePath = ""],
          [Complete("deleteFile") EXCEPT !.filePath = ""],
          [Complete("modifyFile") EXCEPT !.oldString = <<>>],
          [Complete("modifyFile") EXCEPT !.oldString = <<"c">>, !.newString = <<>>],
          [Complete("modifyFile") EXCEPT !.oldString = <<"z">>],
          [Complete("runShellCommand") EXCEPT !.command = ""]}
    \cup {Keep(Full("unrecognizedAction"), {"action", "filePath"}),
          Keep(Full(""), {"command"}),
          NullValue, NumberValue}

(***************************************************************************)
(* The response text, as the two regular expressions of the handler see    *)
(* it: the sequence of its fenced blocks.  A block tagged json has an      *)
(* interior that is empty, is not JSON, or is the JSON text of an array or *)
(* of another value.                                                       *)
(***************************************************************************)
Arrays == UNION {[1..n -> Instructions] : n \in 0..MaxBatch}

EmptyInterior == [form |-> "empty", elems |-> <<>>]
MalformedInterior == [form |-> "malformed", elems |-> <<>>]
ArrayInterior(a) == [form |-> "array", elems |-> a]
ValueInterior(v) == [form |-> "value", elems |-> <<v>>]

Interiors ==
    {EmptyInterior, MalformedInterior}
    \cup {ArrayInterior(a) : a \in Arrays}
    \cup {ValueInterior(v) : v \in Instructions}

JsonBlock(x) == [tag |-> "json", interior |-> x]
CodeBlock == [tag |-> "code", interior |-> [form |-> "text", elems |-> <<>>]]

\* A few interiors for the responses that hold two blocks.
FewInteriors ==
    {EmptyInterior, MalformedInterior,
     ArrayInterior(<<Complete("deleteFile")>>),
     ValueInterior(Complete("runShellCommand"))}

Responses ==
    {<<>>, <<CodeBlock>>}
    \cup {<<JsonBlock(x)>> : x \in Interiors}
    \cup {<<JsonBlock(x), CodeBlock>> : x \in FewInteriors}
    \cup {<<CodeBlock, JsonBlock(x)>> : x \in FewInteriors}
    \cup {<<JsonBlock(x), JsonBlock(y)>> : x, y \in FewInteriors}

\* The regular expression matching the last block tagged json.
JsonMatchLast(text) ==
    IF \E k \in 1..Len(text) : text[k].tag = "json"
    THEN CHOOSE k \in 1..Len(text) :
            /\ text[k].tag = "json"
            /\ \A j \in (k + 1)..Len(text) : text[j].tag # "json"
    ELSE 0

\* text.match(jsonBlockRegex): the position of the first block tagged json,
\* 0 when the text has none (match returns null).
JsonMatch(text) ==
    IF \E k \in 1..Len(text) : text[k].tag = "json"
    THEN CHOOSE k \in 1..Len(text) :
            /\ text[k].tag = "json"
            /\ \A j \in 1..(k - 1) : text[j].tag # "json"
    ELSE 0

\* jsonMatch && jsonMatch[1]: a match whose captured interior is not the
\* empty string.
JsonMatchTruthy(text) ==
    /\ JsonMatch(text) # 0
    /\ text[JsonMatch(text)].interior.form # "empty"

\* JSON.parse(jsonMatch[1]) of a truthy capture: "throws" or the form parsed.
ParseOutcome(text) ==
    LET x == text[JsonMatch(text)].interior
    IN  IF x.form = "malformed" THEN "throws" ELSE x.form

\* The values handed to processInstruction, in order: the elements of an
\* array, or the one value that is not an array.
Batch(text) ==
    IF JsonMatchTruthy(text) /\ ParseOutcome(text) # "throws"
    THEN text[JsonMatch(text)].interior.elems
    ELSE <<>>

\* codeMatch && codeMatch[1]: codeBlockRegex has no capture group, so
\* codeMatch[1] is undefined for every match.
CodeMatchTruthy(text) == FALSE

(***************************************************************************)
(* processInstruction: the branch its switch and its field checks take.    *)
(***************************************************************************)
\* Truthy with the test inverted (if (!instruction[k]) ...).
TruthyInverted(i, k) == ~(k \in i.has /\ i[k] # "")

\* instruction[k] is truthy: the key is there and its string is not empty.
Truthy(i, k) == k \in i.has /\ i[k] # ""

\* Defined as a truthiness test: the empty string counts as missing.
DefinedNonEmpty(i, k) == k \in i.has /\ i[k] # <<>>

\* Defined with the presence test left out.
DefinedAlways(i, k) == TRUE

\* instruction[k] !== undefined.
Defined(i, k) == k \in i.has

Branch(i) ==
    IF i.kind = "null" THEN "TypeError"
    ELSE IF "action" \notin i.has THEN "default"
    ELSE CASE i.action = "deleteFile" ->
                IF Truthy(i, "filePath") THEN "delete" ELSE "deleteMissing"
           [] i.action = "renameFile" ->
                IF Truthy(i, "oldPath") /\ Truthy(i, "newPath")
                THEN "rename" ELSE "renameMissing"
           [] i.action = "createFile" ->
                IF Truthy(i, "filePath") /\ Defined(i, "content")
                THEN "write" ELSE "createSkip"
           [] i.action = "modifyFile" ->
                IF /\ Truthy(i, "filePath")
                   /\ Defined(i, "oldString")
                   /\ Defined(i, "newString")
                THEN "open" ELSE "modifySkip"
           [] i.action = "runShellCommand" ->
                IF Truthy(i, "command") THEN "shell" ELSE "shellMissing"
           [] OTHER -> "default"

(***************************************************************************)
(* The notification texts, the interpolated values left as placeholders.   *)
(***************************************************************************)
MsgDeleted == "File <filePath> deleted successfully."
MsgDeleteError == "Error deleting file <filePath>: <message>"
MsgDeleteMissing == "Delete file instruction missing filePath."
MsgRenamed == "File <oldPath> renamed to <newPath> successfully."
MsgRenameError == "Error renaming file from <oldPath> to <newPath>: <message>"
MsgRenameMissing == "Rename file instruction missing oldPath or newPath."
MsgCreated == "File <filePath> created successfully."
MsgCreateExists == "File creation failed: <filePath> already exists."
MsgCreateNoDir == "File creation failed: Directory for <filePath> does not exist."
MsgCreateError == "Error creating file <filePath>: <message>"
MsgModified == "File <filePath> modified successfully."
MsgModifyNotFound ==
    "File modification failed: Could not find the specified oldString in <filePath>."
MsgModifyError == "Error modifying file <filePath>: <message>"
MsgExecuting == "Executing command: <command>"
MsgShellMissing == "Run shell command instruction missing command."
MsgUnrecognized == "AI provided an unrecognized or incomplete JSON instruction."
MsgSingleObject ==
    "AI provided a single JSON object instead of an array for operations. Attempting to process as a single operation."
MsgMalformed == "AI provided malformed JSON instruction(s)."

(***************************************************************************)
(* State.                                                                  *)
(***************************************************************************)
TurnIds == {"T1", "T2"}
Slots == 1..MaxBatch

VARIABLES
    apiKey,     \* whether the setting gemini-code-plugin.apiKey has a value
    panels,     \* how many webview panels have been created
    handler,    \* whether a panel's message handler has been registered
    prompts,    \* the turns whose prompt message has not arrived yet
    resp,       \* resp[t]: the text the generative model answers turn t with
    hpc,        \* hpc[t]: where the message handler of turn t stands
    idx,        \* idx[t]: the element the handler's loop is at
    dpc,        \* dpc[t][i]: where the processInstruction call of element i stands
    fullText,   \* fullText[t][i]: document.getText() as that call read it
    startIndex, \* startIndex[t][i]: fullText.indexOf(oldString) of that call
    docText,    \* the text of the open document
    fileStore,  \* the files of the host's file system
    terminals,  \* the terminals created, in order
    log         \* what has happened, in order

\* The state of the startChat command.
chat == <<apiKey, panels, handler>>

vars == <<chat, prompts, resp, hpc, idx, dpc, fullText, startIndex, docText, fileStore,
          terminals, log>>

Paths == {"/p", "/q"}
NoFile == [exists |-> FALSE, bytes |-> <<>>]
InitialText == <<"a", "c", "a">>

\* One entry of the log: a notification (ev is its severity), a call of a
\* host capability, a host operation raising, a postMessage, a console.error,
\* or a processInstruction call beginning, returning or rejecting.
Ev(ev, what, t, i) == [ev |-> ev, what |-> what, t |-> t, i |-> i]

InitCommon ==
    /\ panels = 0
    /\ handler = FALSE
    /\ hpc = [t \in TurnIds |-> "idle"]
    /\ idx = [t \in TurnIds |-> 0]
    /\ dpc = [t \in TurnIds |-> [i \in Slots |-> "none"]]
    /\ fullText = [t \in TurnIds |-> [i \in Slots |-> <<>>]]
    /\ startIndex = [t \in TurnIds |-> [i \in Slots |-> -1]]
    /\ docText = InitialText
    /\ fileStore = [p \in Paths |-> IF p = "/p" THEN [exists |-> TRUE, bytes |-> <<"o">>]
                                    ELSE NoFile]
    /\ terminals = <<>>
    /\ log = <<>>

\* One prompt message, answered with any of the responses.
Init ==
    /\ InitCommon
    /\ apiKey \in BOOLEAN
    /\ prompts = {"T1"}
    /\ resp \in {[t \in TurnIds |-> IF t = "T1" THEN r ELSE <<>>] : r \in Responses}

(***************************************************************************)
(* processInstruction, up to its first await.                              *)
(***************************************************************************)
\* What the three terminal calls of runShellCommand can do: nothing in the
\* source catches a throw of any of them.
ShellOutcomes == {"ok", "createTerminalThrows", "showThrows", "sendTextThrows"}

Begin(t, i) == Ev("begin", "processInstruction", t, i)
Return(t, i) == Ev("return", "processInstruction", t, i)
Reject(t, i) == Ev("reject", "processInstruction", t, i)
Call(op, t, i) == Ev("call", op, t, i)
Raise(op, t, i) == Ev("raise", op, t, i)

\* The call returns after one warning.
Warned(t, i, m) ==
    [pc |-> "returned", terms |-> <<>>,
     evs |-> <<Begin(t, i), Ev("warning", m, t, i), Return(t, i)>>]

\* Every arm writing the file in the place of its own host operation.
AwaitingWrite(t, i, op) ==
    [pc |-> "writeFile", terms |-> <<>>, evs |-> <<Begin(t, i), Call("writeFile", t, i)>>]

\* The success reported when the host operation is called, before it
\* completes.
AwaitingReported(t, i, op) ==
    [pc |-> op, terms |-> <<>>,
     evs |-> <<Begin(t, i), Call(op, t, i), Ev("info", "done", t, i)>>]

\* The call has called the host operation op and awaits it.
Awaiting(t, i, op) ==
    [pc |-> op, terms |-> <<>>, evs |-> <<Begin(t, i), Call(op, t, i)>>]

\* The call returns having done nothing: a field check failed in an arm
\* that has no else.
Skipped(t, i) ==
    [pc |-> "returned", terms |-> <<>>, evs |-> <<Begin(t, i), Return(t, i)>>]

\* The default arm left out of the switch.
DefaultArmMissing(t, i) == Skipped(t, i)

\* The default arm of the switch.
DefaultArm(t, i) == Warned(t, i, MsgUnrecognized)

\* The runShellCommand arm with the info shown before the command is sent.
ShellDoneInfoFirst(instr, t, i) ==
    [pc |-> "returned",
     terms |-> <<[name |-> "Gemini Command", shown |-> TRUE, sent |-> <<instr.command>>]>>,
     evs |-> <<Begin(t, i), Call("createTerminal", t, i), Call("show", t, i),
               Ev("info", MsgExecuting, t, i), Call("sendText", t, i), Return(t, i)>>]

\* The runShellCommand arm when none of its terminal calls throws: a new
\* terminal is created, shown, sent the command, and the info is shown.
ShellDone(instr, t, i) ==
    [pc |-> "returned",
     terms |-> <<[name |-> "Gemini Command", shown |-> TRUE, sent |-> <<instr.command>>]>>,
     evs |-> <<Begin(t, i), Call("createTerminal", t, i), Call("show", t, i),
               Call("sendText", t, i), Ev("info", MsgExecuting, t, i), Return(t, i)>>]

\* The synchronous part of processInstruction(instr, panel): the state the
\* call is left in, the log entries it makes and the terminals it creates.
SyncPart(instr, t, i, sh) ==
    LET b == Branch(instr)
        warn(m) == Warned(t, i, m)
        host(op) == Awaiting(t, i, op)
        skip == Skipped(t, i)
    IN  CASE b = "TypeError" ->
                [pc |-> "rejected", terms |-> <<>>,
                 evs |-> <<Begin(t, i), Raise("TypeError", t, i), Reject(t, i)>>]
          [] b = "delete" -> host("delete")
          [] b = "deleteMissing" -> warn(MsgDeleteMissing)
          [] b = "rename" -> host("rename")
          [] b = "renameMissing" -> warn(MsgRenameMissing)
          [] b = "write" -> host("writeFile")
          [] b = "createSkip" -> skip
          [] b = "open" -> host("openTextDocument")
          [] b = "modifySkip" -> skip
          [] b = "shellMissing" -> warn(MsgShellMissing)
          [] b = "shell" ->
                CASE sh = "createTerminalThrows" ->
                        [pc |-> "rejected", terms |-> <<>>,
                         evs |-> <<Begin(t, i), Call("createTerminal", t, i),
                                   Raise("createTerminal", t, i), Reject(t, i)>>]
                  [] sh = "showThrows" ->
                        [pc |-> "rejected",
                         terms |-> <<[name |-> "Gemini Command", shown |-> FALSE,
                                      sent |-> <<>>]>>,
                         evs |-> <<Begin(t, i), Call("createTerminal", t, i),
                                   Call("show", t, i), Raise("show", t, i), Reject(t, i)>>]
                  [] sh = "sendTextThrows" ->
                        [pc |-> "rejected",
                         terms |-> <<[name |-> "Gemini Command", shown |-> TRUE,
                                      sent |-> <<>>]>>,
                         evs |-> <<Begin(t, i), Call("createTerminal", t, i),
                                   Call("show", t, i), Call("sendText", t, i),
                                   Raise("sendText", t, i), Reject(t, i)>>]
                  [] OTHER -> ShellDone(instr, t, i)
          [] OTHER -> DefaultArm(t, i)

\* The call made before what the handler had to log first.
StartBeforeLogging(t, i, pre) ==
    LET instr == Batch(resp[t])[i]
    IN  \E sh \in (IF Branch(instr) = "shell" THEN ShellOutcomes ELSE {"ok"}) :
            LET r == SyncPart(instr, t, i, sh)
            IN  /\ dpc' = [dpc EXCEPT ![t][i] = r.pc]
                /\ log' = log \o r.evs \o pre
                /\ terminals' = terminals \o r.terms

\* The handler calls processInstruction on element i of turn t, after
\* logging pre.
Start(t, i, pre) ==
    LET instr == Batch(resp[t])[i]
    IN  \E sh \in (IF Branch(instr) = "shell" THEN ShellOutcomes ELSE {"ok"}) :
            LET r == SyncPart(instr, t, i, sh)
            IN  /\ dpc' = [dpc EXCEPT ![t][i] = r.pc]
                /\ log' = log \o pre \o r.evs
                /\ terminals' = terminals \o r.terms

(***************************************************************************)
(* processInstruction, resumed when the host operation it awaits settles.  *)
(***************************************************************************)
Min(a, b) == IF a < b THEN a ELSE b

\* fullText.lastIndexOf(s) in the place of indexOf.
IndexOfLast(text, s) ==
    LET hits == {k \in 0..(Len(text) - Len(s)) : SubSeq(text, k + 1, k + Len(s)) = s}
    IN  IF hits = {} THEN -1 ELSE CHOOSE k \in hits : \A j \in hits : k >= j

\* The search taken to succeed at the start of the text.
IndexOfAssumedFound(text, s) == 0

\* fullText.indexOf(s): the offset of the first occurrence, -1 when none.
IndexOf(text, s) ==
    LET hits == {k \in 0..(Len(text) - Len(s)) : SubSeq(text, k + 1, k + Len(s)) = s}
    IN  IF hits = {} THEN -1 ELSE CHOOSE k \in hits : \A j \in hits : k <= j

\* The edit inserting s at from and deleting nothing.
InsertAt(text, from, to, s) ==
    SubSeq(text, 1, from) \o s \o SubSeq(text, from + 1, Len(text))

\* editBuilder.replace(range, s): the text with [from, to) replaced by s.
ReplaceRange(text, from, to, s) ==
    LET a == Min(from, Len(text))
        b == Min(to, Len(text))
    IN  SubSeq(text, 1, a) \o s \o SubSeq(text, b + 1, Len(text))

Instr(t, i) == resp[t][JsonMatch(resp[t])].interior.elems[i]

\* The call of element i of turn t is left in state pc, having logged evs.
Settle(t, i, pc, evs) ==
    /\ dpc' = [dpc EXCEPT ![t][i] = pc]
    /\ log' = log \o evs

\* The notification shown twice before the return.
FinishNotifiedTwice(t, i, sev, msg) ==
    Settle(t, i, "returned", <<Ev(sev, msg, t, i), Ev(sev, msg, t, i), Return(t, i)>>)

\* The call shows one notification and returns.
Finish(t, i, sev, msg) ==
    Settle(t, i, "returned", <<Ev(sev, msg, t, i), Return(t, i)>>)

\* The host operation raising with no try around it: the call rejects.
FailUncaught(t, i, op, msg) ==
    Settle(t, i, "rejected", <<Raise(op, t, i), Reject(t, i)>>)

\* The catch showing a warning in the place of the error.
FailAsWarning(t, i, op, msg) ==
    Settle(t, i, "returned", <<Raise(op, t, i), Ev("warning", msg, t, i), Return(t, i)>>)

\* The host operation raising and the call never resuming.
FailNeverResumes(t, i, op, msg) ==
    Settle(t, i, "hung", <<Raise(op, t, i)>>)

Fail(t, i, op, msg) ==
    Settle(t, i, "returned", <<Raise(op, t, i), Ev("error", msg, t, i), Return(t, i)>>)

\* await vscode.workspace.fs.delete(uri)
DeleteSettles(t, i) ==
    /\ dpc[t][i] = "delete"
    /\ \/ /\ Finish(t, i, "info", MsgDeleted)
          /\ fileStore' = [fileStore EXCEPT ![Instr(t, i).filePath] = NoFile]
       \/ /\ Fail(t, i, "delete", MsgDeleteError)
          /\ UNCHANGED fileStore
    /\ UNCHANGED <<chat, prompts, resp, hpc, idx, fullText, startIndex, docText, terminals>>

\* await vscode.workspace.fs.rename(oldUri, newUri)
RenameSettles(t, i) ==
    /\ dpc[t][i] = "rename"
    /\ \/ /\ Finish(t, i, "info", MsgRenamed)
          /\ fileStore' = [p \in Paths |->
                            IF p = Instr(t, i).newPath THEN fileStore[Instr(t, i).oldPath]
                            ELSE IF p = Instr(t, i).oldPath THEN NoFile
                            ELSE fileStore[p]]
       \/ /\ Fail(t, i, "rename", MsgRenameError)
          /\ UNCHANGED fileStore
    /\ UNCHANGED <<chat, prompts, resp, hpc, idx, fullText, startIndex, docText, terminals>>

\* The codes a failed write can carry.
WriteErrors == {"EEXIST", "ENOENT", "other"}

\* The catch without the tests of e.code.
CreateErrorMsgUnclassified(code) == MsgCreateError

CreateErrorMsg(code) ==
    IF code = "EEXIST" THEN MsgCreateExists
    ELSE IF code = "ENOENT" THEN MsgCreateNoDir
    ELSE MsgCreateError

\* await vscode.workspace.fs.writeFile(uri, Buffer.from(content, 'utf8'))
WriteSettles(t, i) ==
    /\ dpc[t][i] = "writeFile"
    /\ \/ /\ Finish(t, i, "info", MsgCreated)
          /\ fileStore' = [fileStore EXCEPT ![Instr(t, i).filePath] =
                              [exists |-> TRUE, bytes |-> Instr(t, i).content]]
       \/ /\ \E code \in WriteErrors :
                Settle(t, i, "returned",
                       <<Raise(code, t, i), Ev("error", CreateErrorMsg(code), t, i),
                         Return(t, i)>>)
          /\ UNCHANGED fileStore
    /\ UNCHANGED <<chat, prompts, resp, hpc, idx, fullText, startIndex, docText, terminals>>

\* await vscode.workspace.openTextDocument(uri)
OpenSettles(t, i) ==
    /\ dpc[t][i] = "openTextDocument"
    /\ \/ Settle(t, i, "showTextDocument", <<Call("showTextDocument", t, i)>>)
       \/ Fail(t, i, "openTextDocument", MsgModifyError)
    /\ UNCHANGED <<chat, prompts, resp, hpc, idx, fullText, startIndex, docText, fileStore,
                   terminals>>

\* await vscode.window.showTextDocument(document), then getText, indexOf and
\* either the call of editor.edit or the not-found warning.
ShowSettles(t, i) ==
    /\ dpc[t][i] = "showTextDocument"
    /\ \/ LET k == IndexOf(docText, Instr(t, i).oldString)
          IN  /\ fullText' = [fullText EXCEPT ![t][i] = docText]
              /\ startIndex' = [startIndex EXCEPT ![t][i] = k]
              /\ IF k # -1
                 THEN Settle(t, i, "edit", <<Call("edit", t, i)>>)
                 ELSE Finish(t, i, "warning", MsgModifyNotFound)
       \/ /\ Fail(t, i, "showTextDocument", MsgModifyError)
          /\ UNCHANGED <<fullText, startIndex>>
    /\ UNCHANGED <<chat, prompts, resp, hpc, idx, docText, fileStore, terminals>>

\* await editor.edit(...): the edit is applied, or the editor reports that
\* it was not (the promise resolves to false), or the call raises.  The
\* value the promise resolves to is not read.
EditSettles(t, i) ==
    /\ dpc[t][i] = "edit"
    /\ \/ /\ Finish(t, i, "info", MsgModified)
          /\ docText' = ReplaceRange(docText, startIndex[t][i],
                                     startIndex[t][i] + Len(Instr(t, i).oldString),
                                     Instr(t, i).newString)
       \/ /\ Settle(t, i, "returned",
                    <<Ev("notApplied", "edit", t, i), Ev("info", MsgModified, t, i),
                      Return(t, i)>>)
          /\ UNCHANGED docText
       \/ /\ Fail(t, i, "edit", MsgModifyError)
          /\ UNCHANGED docText
    /\ UNCHANGED <<chat, prompts, resp, hpc, idx, fullText, startIndex, fileStore, terminals>>

(***************************************************************************)
(* The message handler of a turn (command 'prompt').                       *)
(***************************************************************************)
\* Whether the handler awaits the processInstruction call it makes for a
\* value that is not an array: the call is made without await.
SingleObjectAwaited == FALSE

\* The catch of the handler's outer try: console.error and the error text
\* posted to the chat panel.
OuterCatch(t, op) ==
    <<Raise(op, t, 0),
      Ev("console", "Error generating content or processing response:", t, 0),
      Ev("post", "Error: <message>", t, 0)>>

\* The catch around JSON.parse and the dispatch loop.
InnerCatch(t) ==
    <<Ev("console", "Error parsing AI JSON instruction(s):", t, 0),
      Ev("error", MsgMalformed, t, 0)>>

HandlerReturn(t) == Ev("handlerReturn", "prompt", t, 0)

\* The warning shown after the call instead of before it.
DispatchThenWarn(t, evs) == evs \o <<Ev("warning", MsgSingleObject, t, 0)>>

\* A value that is not an array: the warning is shown, then
\* processInstruction is called on the value (evs is what the call logs).
WarnThenDispatch(t, evs) == <<Ev("warning", MsgSingleObject, t, 0)>> \o evs

MsgNoApiKey == "Gemini API Key not configured. Please set it in VS Code settings."

\* What the command logs: its entries belong to no turn.
ChatEv(ev, what) == Ev(ev, what, "startChat", 0)

\* The command gemini-code-plugin.startChat, run once: the webview panel is
\* created and its html read from the extension's media folder; then the
\* API key is read from the settings and, when it has no value, the error is
\* shown and the command returns; otherwise the message handler is
\* registered on the panel.
StartChat ==
    /\ panels = 0
    /\ panels' = panels + 1
    /\ \/ /\ log' = log \o <<ChatEv("call", "createWebviewPanel"),
                               ChatEv("raise", "readFileSync")>>
          /\ UNCHANGED handler
       \/ /\ ~apiKey
          /\ log' = log \o <<ChatEv("call", "createWebviewPanel"),
                               ChatEv("error", MsgNoApiKey)>>
          /\ UNCHANGED handler
       \/ /\ apiKey
          /\ log' = Append(log, ChatEv("call", "createWebviewPanel"))
          /\ handler' = TRUE
    /\ UNCHANGED <<apiKey, prompts, resp, hpc, idx, dpc, fullText, startIndex, docText,
                   fileStore, terminals>>

\* A prompt message arrives: the context is gathered (findFiles is awaited
\* when a workspace folder is open) and the model is called.
ReceivePrompt(t) ==
    /\ handler
    /\ t \in prompts
    /\ hpc[t] = "idle"
    /\ prompts' = prompts \ {t}
    /\ \E folders \in BOOLEAN :
          IF folders
          THEN /\ hpc' = [hpc EXCEPT ![t] = "findFiles"]
               /\ log' = Append(log, Call("findFiles", t, 0))
          ELSE /\ hpc' = [hpc EXCEPT ![t] = "generateContent"]
               /\ log' = Append(log, Call("generateContent", t, 0))
    /\ UNCHANGED <<chat, resp, idx, dpc, fullText, startIndex, docText, fileStore, terminals>>

\* await vscode.workspace.findFiles(...)
FindFilesSettles(t) ==
    /\ hpc[t] = "findFiles"
    /\ \/ /\ hpc' = [hpc EXCEPT ![t] = "generateContent"]
          /\ log' = Append(log, Call("generateContent", t, 0))
       \/ /\ hpc' = [hpc EXCEPT ![t] = "done"]
          /\ log' = log \o OuterCatch(t, "findFiles") \o <<HandlerReturn(t)>>
    /\ UNCHANGED <<chat, prompts, resp, idx, dpc, fullText, startIndex, docText, fileStore,
                   terminals>>

\* The handler from the response text on: the text is posted to the panel,
\* the first json block is parsed and its instructions are dispatched, up to
\* the first await.
Extract(t) ==
    LET text == resp[t]
        posted == <<Ev("post", "response", t, 0)>>
    IN  IF JsonMatchTruthy(text)
        THEN CASE ParseOutcome(text) = "throws" ->
                    /\ hpc' = [hpc EXCEPT ![t] = "done"]
                    /\ log' = log \o posted \o InnerCatch(t) \o <<HandlerReturn(t)>>
                    /\ UNCHANGED <<idx, dpc, terminals>>
               [] ParseOutcome(text) = "value" ->
                    /\ idx' = [idx EXCEPT ![t] = 1]
                    /\ hpc' = [hpc EXCEPT ![t] =
                                 IF SingleObjectAwaited THEN "await" ELSE "done"]
                    /\ \E sh \in (IF Branch(Batch(text)[1]) = "shell"
                                  THEN ShellOutcomes ELSE {"ok"}) :
                          LET r == SyncPart(Batch(text)[1], t, 1, sh)
                          IN  /\ dpc' = [dpc EXCEPT ![t][1] = r.pc]
                              /\ terminals' = terminals \o r.terms
                              /\ log' = log \o posted \o WarnThenDispatch(t, r.evs)
                                        \o (IF SingleObjectAwaited THEN <<>>
                                            ELSE <<HandlerReturn(t)>>)
               [] Len(Batch(text)) = 0 ->
                    /\ hpc' = [hpc EXCEPT ![t] = "done"]
                    /\ log' = log \o posted \o <<HandlerReturn(t)>>
                    /\ UNCHANGED <<idx, dpc, terminals>>
               [] OTHER ->
                    /\ idx' = [idx EXCEPT ![t] = 1]
                    /\ hpc' = [hpc EXCEPT ![t] = "await"]
                    /\ Start(t, 1, posted)
        ELSE IF CodeMatchTruthy(text)
        THEN \E editor \in BOOLEAN :
                IF editor
                THEN /\ hpc' = [hpc EXCEPT ![t] = "insert"]
                     /\ log' = log \o posted \o <<Ev("codeScan", "codeBlockRegex", t, 0),
                                                  Call("insert", t, 0)>>
                     /\ UNCHANGED <<idx, dpc, terminals>>
                ELSE /\ hpc' = [hpc EXCEPT ![t] = "done"]
                     /\ log' = log \o posted
                               \o <<Ev("codeScan", "codeBlockRegex", t, 0),
                                    Ev("warning", "No active text editor found to insert code.",
                                       t, 0),
                                    HandlerReturn(t)>>
                     /\ UNCHANGED <<idx, dpc, terminals>>
        ELSE /\ hpc' = [hpc EXCEPT ![t] = "done"]
             /\ log' = log \o posted \o <<Ev("codeScan", "codeBlockRegex", t, 0),
                                          HandlerReturn(t)>>
             /\ UNCHANGED <<idx, dpc, terminals>>

\* await model.generateContent(fullPrompt), then the rest of the handler up
\* to its next await.
GenerateSettles(t) ==
    /\ hpc[t] = "generateContent"
    /\ \/ Extract(t)
       \/ /\ hpc' = [hpc EXCEPT ![t] = "done"]
          /\ log' = log \o OuterCatch(t, "generateContent") \o <<HandlerReturn(t)>>
          /\ UNCHANGED <<idx, dpc, terminals>>
    /\ UNCHANGED <<chat, prompts, resp, fullText, startIndex, docText, fileStore>>

\* The handler resumes from the await of a processInstruction call (or of
\* the insertion of a code block): the loop goes on to the next element, or
\* the rejection is caught.
HandlerResumes(t) ==
    /\ \/ /\ hpc[t] = "await"
          /\ dpc[t][idx[t]] = "returned"
          /\ IF ParseOutcome(resp[t]) = "array" /\ idx[t] < Len(Batch(resp[t]))
             THEN /\ idx' = [idx EXCEPT ![t] = idx[t] + 1]
                  /\ Start(t, idx[t] + 1, <<>>)
                  /\ UNCHANGED hpc
             ELSE /\ hpc' = [hpc EXCEPT ![t] = "done"]
                  /\ log' = Append(log, HandlerReturn(t))
                  /\ UNCHANGED <<idx, dpc, terminals>>
       \/ /\ hpc[t] = "await"
          /\ dpc[t][idx[t]] = "rejected"
          /\ hpc' = [hpc EXCEPT ![t] = "done"]
          /\ log' = log \o InnerCatch(t) \o <<HandlerReturn(t)>>
          /\ UNCHANGED <<idx, dpc, terminals>>
       \/ /\ hpc[t] = "insert"
          /\ hpc' = [hpc EXCEPT ![t] = "done"]
          /\ \/ log' = log \o <<Ev("info", "Code inserted into active editor.", t, 0),
                                HandlerReturn(t)>>
             \/ log' = log \o OuterCatch(t, "insert") \o <<HandlerReturn(t)>>
          /\ UNCHANGED <<idx, dpc, terminals>>
    /\ UNCHANGED <<chat, prompts, resp, fullText, startIndex, docText, fileStore>>

Next ==
    \/ StartChat
    \/ \E t \in TurnIds :
        \/ ReceivePrompt(t)
        \/ FindFilesSettles(t)
        \/ GenerateSettles(t)
        \/ HandlerResumes(t)
        \/ \E i \in Slots :
              \/ DeleteSettles(t, i)
              \/ RenameSettles(t, i)
              \/ WriteSettles(t, i)
              \/ OpenSettles(t, i)
              \/ ShowSettles(t, i)
              \/ EditSettles(t, i)

Spec == Init /\ [][Next]_vars

\* Two prompt messages, the second of which may arrive while the first is
\* being handled: each await of a handler lets the other's steps in.
TwoTurnResponses ==
    {<<JsonBlock(ArrayInterior(<<Complete("deleteFile"), Complete("renameFile")>>))>>,
     <<JsonBlock(ArrayInterior(<<Complete("createFile")>>))>>,
     <<JsonBlock(ValueInterior(Complete("modifyFile")))>>}

InitTwoTurns ==
    /\ InitCommon
    /\ apiKey = TRUE
    /\ prompts = TurnIds
    /\ resp \in [TurnIds -> TwoTurnResponses]

SpecTwoTurns == InitTwoTurns /\ [][Next]_vars

(***************************************************************************)
(* Reading the log.                                                        *)
(***************************************************************************)
Severities == {"info", "warning", "error"}

\* Its notifications, in order.
NotesOf(t, i) == SelectSeq(log, LAMBDA e : e.t = t /\ e.i = i /\ e.ev \in Severities)

\* How many notifications of severity sev it made.
NoteCount(t, i, sev) == Len(SelectSeq(log, LAMBDA e : e.t = t /\ e.i = i /\ e.ev = sev))

\* How many times it called the host capability op.
CallCount(t, i, op) ==
    Len(SelectSeq(log, LAMBDA e : e.t = t /\ e.i = i /\ e.ev = "call" /\ e.what = op))

\* How many host calls it made in all.
CallsOf(t, i) == Len(SelectSeq(log, LAMBDA e : e.t = t /\ e.i = i /\ e.ev = "call"))

\* A host operation of the call raised, or the editor did not apply the edit.
HostFailed(t, i) ==
    \E k \in DOMAIN log :
        /\ log[k].t = t
        /\ log[k].i = i
        /\ log[k].ev \in {"raise", "notApplied"}

\* processInstruction was called on element i of turn t.
Begun(t, i) == dpc[t][i] # "none"

\* The elements of turn t: the positions of its batch.
Elements(t) == DOMAIN Batch(resp[t])

\* The response of turn t carries a JSON array (a value that is not one).
IsArrayTurn(t) == JsonMatchTruthy(resp[t]) /\ ParseOutcome(resp[t]) = "array"
IsValueTurn(t) == JsonMatchTruthy(resp[t]) /\ ParseOutcome(resp[t]) = "value"

(***************************************************************************)
(* The instruction schema of the specification (data model): a recognized  *)
(* action with every required field present, paths and commands not empty. *)
(***************************************************************************)
NonEmptyFields == {"filePath", "oldPath", "newPath", "command"}

StructurallyComplete(x) ==
    /\ x.kind = "object"
    /\ "action" \in x.has
    /\ x.action \in Actions
    /\ \A k \in Required(x.action) :
          /\ k \in x.has
          /\ k \in NonEmptyFields => x[k] # ""

\* A recognized action with a required field absent.
MissingRequired(x) ==
    /\ x.kind = "object"
    /\ "action" \in x.has
    /\ x.action \in Actions
    /\ \E k \in Required(x.action) : k \notin x.has

\* The object has no action or one outside the five.
Unrecognized(x) ==
    /\ x.kind = "object"
    /\ "action" \notin x.has \/ x.action \notin Actions

\* The host capability each action is about.
Capability(a) ==
    CASE a = "createFile" -> "writeFile"
      [] a = "deleteFile" -> "delete"
      [] a = "renameFile" -> "rename"
      [] a = "modifyFile" -> "edit"
      [] a = "runShellCommand" -> "sendText"

\* s occurs in text.
Occurs(text, s) ==
    \E k \in 0..(Len(text) - Len(s)) : SubSeq(text, k + 1, k + Len(s)) = s

\* The case of C1: a complete instruction, returned, every host operation
\* having succeeded.
C1_Case(t, i) ==
    /\ dpc[t][i] = "returned"
    /\ LET x == Instr(t, i)
       IN  /\ StructurallyComplete(x)
           /\ ~HostFailed(t, i)
           /\ x.action = "modifyFile" => Occurs(fullText[t][i], x.oldString)

(***************************************************************************)
(* C1.  A structurally complete instruction of any of the five actions     *)
(* (for modifyFile: with oldString occurring in the document), dispatched  *)
(* while every host operation succeeds, has made, once processInstruction  *)
(* has returned, exactly one info notification, no warning, no error, and  *)
(* exactly one call of the host capability of its action.                  *)
(***************************************************************************)
C1_CompleteInstructionSucceeds ==
    \A t \in TurnIds : \A i \in Slots :
        C1_Case(t, i) =>
            /\ NoteCount(t, i, "info") = 1
            /\ NoteCount(t, i, "warning") = 0
            /\ NoteCount(t, i, "error") = 0
            /\ CallCount(t, i, Capability(Instr(t, i).action)) = 1

\* C1 witness: a batch of a modifyFile and a runShellCommand, both returned
\* in success.
C1_Witness ==
    /\ C1_Case("T1", 1)
    /\ C1_Case("T1", 2)
    /\ Instr("T1", 1).action = "modifyFile"
    /\ Instr("T1", 2).action = "runShellCommand"
    /\ docText = <<"b", "c", "a">>
    /\ Len(terminals) = 1

\* The warning documented for each action when a required field is missing.
MissingFieldMessage(a) ==
    CASE a = "createFile" -> "Create file instruction missing filePath or content."
      [] a = "deleteFile" -> "Delete file instruction missing filePath."
      [] a = "renameFile" -> "Rename file instruction missing oldPath or newPath."
      [] a = "modifyFile" ->
            "Modify file instruction missing filePath, oldString, or newString."
      [] a = "runShellCommand" -> "Run shell command instruction missing command."

(***************************************************************************)
(* C2.  A dispatched instruction of a recognized action with a required    *)
(* field absent has made, once processInstruction has returned, exactly    *)
(* one warning, and it is the message of its action.                       *)
(***************************************************************************)
C2_MissingFieldWarns ==
    \A t \in TurnIds : \A i \in Slots :
        (/\ dpc[t][i] = "returned"
         /\ MissingRequired(Instr(t, i)))
        => /\ NoteCount(t, i, "warning") = 1
           /\ \E k \in DOMAIN log :
                 /\ log[k].t = t
                 /\ log[k].i = i
                 /\ log[k].ev = "warning"
                 /\ log[k].what = MissingFieldMessage(Instr(t, i).action)

\* The case of C3: a dispatched instruction with a required field absent.
C3_Case(t, i) ==
    /\ Begun(t, i)
    /\ MissingRequired(Instr(t, i))

(***************************************************************************)
(* C3.  The call of processInstruction on an instruction of a recognized   *)
(* action with a required field absent makes no call of any host           *)
(* capability, at any point of the call.                                   *)
(***************************************************************************)
C3_NoSideEffectWhenFieldMissing ==
    \A t \in TurnIds : \A i \in Slots :
        C3_Case(t, i) =>
            /\ CallsOf(t, i) = 0
            /\ dpc[t][i] = "returned"

\* C3 witness: a createFile without content after a renameFile without
\* newPath, both dispatched, with the file store, the document and the
\* terminals as they were.
C3_Witness ==
    /\ C3_Case("T1", 1)
    /\ C3_Case("T1", 2)
    /\ Instr("T1", 1) = Drop(Complete("renameFile"), "newPath")
    /\ Instr("T1", 2) = Drop(Complete("createFile"), "content")
    /\ hpc["T1"] = "done"
    /\ fileStore["/p"].exists
    /\ ~fileStore["/q"].exists
    /\ docText = InitialText
    /\ terminals = <<>>

\* The case of C4: a dispatched object with an unrecognized action.
C4_Case(t, i) ==
    /\ Begun(t, i)
    /\ Unrecognized(Instr(t, i))

(***************************************************************************)
(* C4.  The call of processInstruction on an object whose action is absent *)
(* or is none of the five recognized ones makes exactly one notification,  *)
(* the generic warning, and no host call, whatever other fields it has.    *)
(***************************************************************************)
C4_UnrecognizedActionWarns ==
    \A t \in TurnIds : \A i \in Slots :
        C4_Case(t, i) =>
            /\ NotesOf(t, i) =
                  <<Ev("warning",
                       "AI provided an unrecognized or incomplete JSON instruction.", t, i)>>
            /\ CallsOf(t, i) = 0
            /\ dpc[t][i] = "returned"

\* C4 witness: an object with no action and a command, then one with an
\* unknown action and a filePath: both dispatched, no terminal created, no
\* file touched.
C4_Witness ==
    /\ C4_Case("T1", 1)
    /\ C4_Case("T1", 2)
    /\ "action" \notin Instr("T1", 1).has
    /\ "command" \in Instr("T1", 1).has
    /\ Instr("T1", 2).action = "unrecognizedAction"
    /\ "filePath" \in Instr("T1", 2).has
    /\ terminals = <<>>
    /\ fileStore["/p"].exists

(***************************************************************************)
(* Batches.                                                                *)
(***************************************************************************)
\* How many times processInstruction was called on element i of turn t.
BeginCount(t, i) ==
    Len(SelectSeq(log, LAMBDA e : e.t = t /\ e.i = i /\ e.ev = "begin"))

\* The generation call of turn t succeeded and its text was posted.
Answered(t) == \E k \in DOMAIN log : log[k] = Ev("post", "response", t, 0)

\* Entry e is logged before position p.
Before(e, p) == \E q \in 1..(p - 1) : log[q] = e

\* A notification of element i of turn t is logged before position p.
NotifiedBefore(t, i, p) ==
    \E q \in 1..(p - 1) : log[q].t = t /\ log[q].i = i /\ log[q].ev \in Severities

(***************************************************************************)
(* C5.  For a response whose first json block is an array: once the        *)
(* handler has returned, processInstruction has been called exactly once   *)
(* on every element; and no call on element i+1 begins, and none of its    *)
(* host operations is started, before the call on element i has returned   *)
(* and a notification of element i has been made.                          *)
(***************************************************************************)
C5_ArrayDispatchedOnceInOrder ==
    \A t \in TurnIds :
        IsArrayTurn(t) =>
            /\ hpc[t] = "done" /\ Answered(t) =>
                  \A i \in Elements(t) : BeginCount(t, i) = 1
            /\ \A p \in DOMAIN log :
                  (log[p].t = t /\ log[p].i > 1 /\ log[p].ev \in {"begin", "call"})
                  => /\ Before(Return(t, log[p].i - 1), p)
                     /\ NotifiedBefore(t, log[p].i - 1, p)

(***************************************************************************)
(* C6.  For an array payload: when the call on element i ended in a        *)
(* validation failure, an unrecognized action or a host operation raising, *)
(* then by the time the handler returns every later element has been       *)
(* dispatched and has made a notification of its own.                      *)
(***************************************************************************)
C6_BatchProcessedToCompletion ==
    \A t \in TurnIds :
        (hpc[t] = "done" /\ IsArrayTurn(t)) =>
            \A i, j \in Elements(t) :
                (/\ i < j
                 /\ Begun(t, i)
                 /\ Instr(t, i).kind = "object"
                 /\ \/ MissingRequired(Instr(t, i))
                    \/ Unrecognized(Instr(t, i))
                    \/ HostFailed(t, i))
                => /\ Begun(t, j)
                   /\ NotesOf(t, j) # <<>>

(***************************************************************************)
(* C7.  No call of processInstruction rejects, whatever the element and    *)
(* whichever host collaborator raises; and by the end of the turn every    *)
(* call that returned after a failure (a host operation raised, a required *)
(* field is absent, the action is unrecognized) has made at least one      *)
(* notification.                                                           *)
(***************************************************************************)
C7_NothingEscapesDispatcher ==
    \A t \in TurnIds : \A i \in Slots :
        /\ dpc[t][i] # "rejected"
        /\ (/\ hpc[t] = "done"
            /\ dpc[t][i] = "returned"
            /\ \/ HostFailed(t, i)
               \/ MissingRequired(Instr(t, i))
               \/ Unrecognized(Instr(t, i)))
           => NotesOf(t, i) # <<>>

\* The text has a json block and its interior is not valid JSON (the empty
\* string is not).
InteriorNotJson(text) ==
    /\ JsonMatch(text) # 0
    /\ text[JsonMatch(text)].interior.form \in {"empty", "malformed"}

(***************************************************************************)
(* C8.  When the response has a json block whose interior is not valid     *)
(* JSON, the turn ends with exactly one error notification, the            *)
(* malformed-JSON one, no instruction dispatched, no host capability       *)
(* called, and the code-block path not entered.                            *)
(***************************************************************************)
C8_MalformedJsonEndsTurn ==
    \A t \in TurnIds :
        (hpc[t] = "done" /\ InteriorNotJson(resp[t]) /\ Answered(t)) =>
            /\ SelectSeq(log, LAMBDA e : e.t = t /\ e.ev \in Severities)
                  = <<Ev("error", "AI provided malformed JSON instruction(s).", t, 0)>>
            /\ \A i \in Slots : ~Begun(t, i)
            /\ \A k \in DOMAIN log :
                  log[k].t = t => /\ log[k].ev # "codeScan"
                                  /\ log[k].ev = "call" => log[k].what = "generateContent"
                                                           \/ log[k].what = "findFiles"

\* The object-instead-of-array warning of turn t.
SingleObjectWarning(t) ==
    Ev("warning",
       "AI provided a single JSON object instead of an array for operations. Attempting to process as a single operation.",
       t, 0)

\* The case of C9: the response of turn t, received, carries a value that is
\* not an array.
C9_Case(t) == hpc[t] \in {"await", "done"} /\ IsValueTurn(t) /\ Answered(t)

(***************************************************************************)
(* C9.  When the json block parses to a value that is not an array, the    *)
(* object-instead-of-array warning is made once, processInstruction is     *)
(* called on the value exactly once and on nothing else, and the warning   *)
(* is logged before everything that call does (host calls and              *)
(* notifications alike).                                                   *)
(***************************************************************************)
C9_SingleObjectWarnedThenDispatched ==
    \A t \in TurnIds :
        C9_Case(t) =>
            /\ Len(SelectSeq(log, LAMBDA e : e = SingleObjectWarning(t))) = 1
            /\ BeginCount(t, 1) = 1
            /\ \A p \in DOMAIN log :
                  (log[p].t = t /\ log[p].i >= 1)
                  => /\ log[p].i = 1
                     /\ Before(SingleObjectWarning(t), p)

\* C9 witness: a single deleteFile object, warned, dispatched, the file
\* deleted and the success reported.
C9_Witness ==
    /\ C9_Case("T1")
    /\ Instr("T1", 1) = Complete("deleteFile")
    /\ dpc["T1"][1] = "returned"
    /\ CallCount("T1", 1, "delete") = 1
    /\ NoteCount("T1", 1, "info") = 1
    /\ ~fileStore["/p"].exists

\* The call on element i of turn t awaits a host operation.
Pending(t, i) == dpc[t][i] \notin {"none", "returned", "rejected"}

(***************************************************************************)
(* C10.  When the handler of a turn has returned, no processInstruction    *)
(* call it made is still awaiting a host operation, and every call that    *)
(* rejected was caught by the handler's try/catch (which reports the       *)
(* malformed-JSON error).                                                  *)
(***************************************************************************)
C10_DispatchAwaitedBeforeReturn ==
    \A t \in TurnIds :
        hpc[t] = "done" =>
            \A i \in Slots :
                /\ ~Pending(t, i)
                /\ dpc[t][i] = "rejected" =>
                      \E k \in DOMAIN log : log[k] = Ev("error", MsgMalformed, t, 0)

(***************************************************************************)
(* Extraction.                                                             *)
(***************************************************************************)
\* The positions of the blocks tagged json in the text.
JsonBlocks(text) == {k \in DOMAIN text : text[k].tag = "json"}

\* The values of the first json block of the text, in order.
FirstBlockValues(text) ==
    LET first == CHOOSE k \in JsonBlocks(text) : \A j \in JsonBlocks(text) : k <= j
    IN  text[first].interior.elems

\* The host capabilities the instruction x can call.
HostOpsOf(x) ==
    IF x.kind # "object" \/ "action" \notin x.has THEN {}
    ELSE CASE x.action = "createFile" -> {"writeFile"}
           [] x.action = "deleteFile" -> {"delete"}
           [] x.action = "renameFile" -> {"rename"}
           [] x.action = "modifyFile" -> {"openTextDocument", "showTextDocument", "edit"}
           [] x.action = "runShellCommand" -> {"createTerminal", "show", "sendText"}
           [] OTHER -> {}

\* The notifications the instruction x can make.
MessagesOf(x) ==
    IF x.kind # "object" THEN {}
    ELSE IF "action" \notin x.has THEN {MsgUnrecognized}
    ELSE CASE x.action = "createFile" ->
                {MsgCreated, MsgCreateExists, MsgCreateNoDir, MsgCreateError}
           [] x.action = "deleteFile" -> {MsgDeleted, MsgDeleteError, MsgDeleteMissing}
           [] x.action = "renameFile" -> {MsgRenamed, MsgRenameError, MsgRenameMissing}
           [] x.action = "modifyFile" -> {MsgModified, MsgModifyNotFound, MsgModifyError}
           [] x.action = "runShellCommand" -> {MsgExecuting, MsgShellMissing}
           [] OTHER -> {MsgUnrecognized}

(***************************************************************************)
(* C11.  When the response has several json blocks, every call of          *)
(* processInstruction, every host call and every notification of a         *)
(* dispatched element is that of a value of the first json block, at its   *)
(* position: the values of the later blocks cause no host call and no      *)
(* notification.                                                           *)
(***************************************************************************)
C11_OnlyFirstJsonBlockDispatched ==
    \A t \in TurnIds :
        Cardinality(JsonBlocks(resp[t])) > 1 =>
            \A p \in DOMAIN log :
                (log[p].t = t /\ log[p].i >= 1) =>
                    /\ log[p].i \in DOMAIN FirstBlockValues(resp[t])
                    /\ LET x == FirstBlockValues(resp[t])[log[p].i]
                       IN  /\ log[p].ev = "call" => log[p].what \in HostOpsOf(x)
                           /\ log[p].ev \in Severities => log[p].what \in MessagesOf(x)

\* C11 witness: a json block holding one deleteFile, then a json block
\* holding a runShellCommand; the turn is over, the file is deleted and no
\* terminal was created.
C11_Witness ==
    /\ resp["T1"] = <<JsonBlock(ArrayInterior(<<Complete("deleteFile")>>)),
                      JsonBlock(ValueInterior(Complete("runShellCommand")))>>
    /\ hpc["T1"] = "done"
    /\ NotesOf("T1", 1) = <<Ev("info", MsgDeleted, "T1", 1)>>
    /\ ~fileStore["/p"].exists
    /\ terminals = <<>>
    /\ \A p \in DOMAIN log : log[p].t = "T1" => log[p].i <= 1

\* The text has a fenced block that is not tagged json.
HasCodeBlock(text) == \E k \in DOMAIN text : text[k].tag = "code"

(***************************************************************************)
(* C12.  When the response has no json block and has a generic fenced code *)
(* block, the turn ends having inserted the block's contents in the active *)
(* editor with the info 'Code inserted into active editor.' or, with no    *)
(* active editor, having shown the warning 'No active text editor found to *)
(* insert code.'.                                                          *)
(***************************************************************************)
C12_CodeBlockInsertedOrWarned ==
    \A t \in TurnIds :
        (/\ hpc[t] = "done"
         /\ Answered(t)
         /\ JsonBlocks(resp[t]) = {}
         /\ HasCodeBlock(resp[t]))
        => \/ /\ \E k \in DOMAIN log : log[k] = Call("insert", t, 0)
              /\ \E k \in DOMAIN log :
                    log[k] = Ev("info", "Code inserted into active editor.", t, 0)
           \/ \E k \in DOMAIN log :
                 log[k] = Ev("warning", "No active text editor found to insert code.", t, 0)

(***************************************************************************)
(* Failures of the host operations.                                        *)
(***************************************************************************)
\* The host operation op of element i of turn t raised (for writeFile, op is
\* the code the failure carries).
Raised(t, i, op) == \E k \in DOMAIN log : log[k] = Raise(op, t, i)

\* The error documented for a failed write, by the code of the failure.
CreateFailureMessage(code) ==
    CASE code = "EEXIST" -> "File creation failed: <filePath> already exists."
      [] code = "ENOENT" ->
            "File creation failed: Directory for <filePath> does not exist."
      [] OTHER -> "Error creating file <filePath>: <message>"

\* The case of C13: the write of a createFile instruction failed with code.
C13_Case(t, i, code) ==
    /\ dpc[t][i] = "returned"
    /\ Instr(t, i).action = "createFile"
    /\ Raised(t, i, code)

(***************************************************************************)
(* C13.  When the write of a createFile instruction fails, the call makes  *)
(* exactly one notification, an error, and no info: the already-exists     *)
(* message for code EEXIST, the directory-does-not-exist message for code  *)
(* ENOENT, the message carrying the underlying text for any other failure. *)
(***************************************************************************)
C13_CreateFailureClassified ==
    \A t \in TurnIds : \A i \in Slots : \A code \in {"EEXIST", "ENOENT", "other"} :
        C13_Case(t, i, code) =>
            NotesOf(t, i) = <<Ev("error", CreateFailureMessage(code), t, i)>>

\* C13 witness: two createFile instructions, the write of the first failing
\* with EEXIST and that of the second with ENOENT; no file was written.
C13_Witness ==
    /\ C13_Case("T1", 1, "EEXIST")
    /\ C13_Case("T1", 2, "ENOENT")
    /\ CallCount("T1", 1, "writeFile") = 1
    /\ fileStore["/p"].bytes = <<"o">>

(***************************************************************************)
(* modifyFile.                                                             *)
(***************************************************************************)
\* The case of C14: a complete modifyFile instruction, returned with no host
\* operation raising, on a document whose text did not contain oldString.
C14_Case(t, i) ==
    /\ dpc[t][i] = "returned"
    /\ LET x == Instr(t, i)
       IN  /\ StructurallyComplete(x)
           /\ x.action = "modifyFile"
           /\ ~HostFailed(t, i)
           /\ ~Occurs(fullText[t][i], x.oldString)

(***************************************************************************)
(* C14.  A complete modifyFile instruction on a document whose text does   *)
(* not contain oldString makes exactly one notification, the warning that  *)
(* names the file path, and applies no edit: editor.edit is not called and *)
(* the document is as the call read it.                                    *)
(***************************************************************************)
C14_OldStringNotFoundWarns ==
    \A t \in TurnIds : \A i \in Slots :
        C14_Case(t, i) =>
            /\ NotesOf(t, i) =
                  <<Ev("warning",
                       "File modification failed: Could not find the specified oldString in <filePath>.",
                       t, i)>>
            /\ CallCount(t, i, "edit") = 0
            /\ idx[t] = i => docText = fullText[t][i]

\* C14 witness: a modifyFile whose oldString is not in the document, returned
\* after the document was opened and shown; the text is the initial one.
C14_Witness ==
    /\ C14_Case("T1", 1)
    /\ Instr("T1", 1).oldString = <<"z">>
    /\ CallCount("T1", 1, "showTextDocument") = 1
    /\ fullText["T1"][1] = InitialText
    /\ docText = InitialText

\* s occurs in text at offset k.
OccursAt(text, s, k) ==
    /\ k >= 0
    /\ k + Len(s) <= Len(text)
    /\ \A j \in 1..Len(s) : text[k + j] = s[j]

\* The offset of the first occurrence of s in text.
FirstOffset(text, s) ==
    CHOOSE n \in 0..Len(text) :
        /\ OccursAt(text, s, n)
        /\ \A m \in 0..(n - 1) : ~OccursAt(text, s, m)

\* The text with the span [k, k+n) replaced by new: prefix, new, suffix.
SpanReplaced(text, k, n, new) ==
    [j \in 1..(Len(text) - n + Len(new)) |->
        IF j <= k THEN text[j]
        ELSE IF j <= k + Len(new) THEN new[j - k]
        ELSE text[j - Len(new) + n]]

\* The text with the first occurrence of old replaced by new.
FirstReplaced(text, old, new) ==
    SpanReplaced(text, FirstOffset(text, old), Len(old), new)

\* The step in which the editor applies the edit of element i of turn t:
\* the call awaited editor.edit and resumes with the success info.
EditApplied(t, i) ==
    /\ dpc[t][i] = "edit"
    /\ dpc'[t][i] = "returned"
    /\ log'[Len(log) + 1].ev = "info"

(***************************************************************************)
(* C15.  When the edit of a complete modifyFile instruction is applied,    *)
(* the document the call read contained oldString, and the edit replaces   *)
(* exactly the span [k, k + len(oldString)), k the offset of the first     *)
(* occurrence in the text read: the new text is prefix, newString, suffix, *)
(* all other text unchanged.  When the document is still the text read,    *)
(* that span is its first occurrence of oldString and the later            *)
(* occurrences stay.                                                       *)
(***************************************************************************)
C15_FirstOccurrenceReplaced ==
    [][\A t \in TurnIds : \A i \in Slots :
          EditApplied(t, i) =>
              LET old == Instr(t, i).oldString
                  new == Instr(t, i).newString
                  read == fullText[t][i]
              IN  /\ Occurs(read, old)
                  /\ docText' = SpanReplaced(docText, FirstOffset(read, old), Len(old), new)
                  /\ docText = read => docText' = FirstReplaced(docText, old, new)]_vars

\* C15 witness: oldString "a" occurs twice in the document "aca"; the edit
\* was applied and the text is "bca", the second "a" still there.
C15_Witness ==
    /\ dpc["T1"][1] = "returned"
    /\ Instr("T1", 1) = Complete("modifyFile")
    /\ fullText["T1"][1] = <<"a", "c", "a">>
    /\ NotesOf("T1", 1) = <<Ev("info", MsgModified, "T1", 1)>>
    /\ ~HostFailed("T1", 1)
    /\ idx["T1"] = 1
    /\ docText = <<"b", "c", "a">>

\* How many times s occurs in text.
Occurrences(text, s) == Cardinality({k \in 0..Len(text) : OccursAt(text, s, k)})

\* The case of C16: elements i and i+1 of the batch of turn t are the same
\* complete modifyFile instruction; the document the first read held
\* oldString exactly once and the replaced text holds it no more; the edit
\* of the first was applied and the second has returned with no host
\* operation raising.
C16_Case(t, i) ==
    /\ i + 1 \in Slots
    /\ IsArrayTurn(t)
    /\ dpc[t][i] = "returned"
    /\ dpc[t][i + 1] = "returned"
    /\ LET x == Instr(t, i)
       IN  /\ Instr(t, i + 1) = x
           /\ StructurallyComplete(x)
           /\ x.action = "modifyFile"
           /\ ~HostFailed(t, i)
           /\ ~HostFailed(t, i + 1)
           /\ Occurrences(fullText[t][i], x.oldString) = 1
           /\ ~Occurs(FirstReplaced(fullText[t][i], x.oldString, x.newString),
                      x.oldString)

(***************************************************************************)
(* C16.  Re-application of modifyFile: when the document holds oldString   *)
(* exactly once and the replaced text holds it no more, the same           *)
(* instruction dispatched a second time makes the not-found warning, no    *)
(* info, and leaves the text as the first application made it: it reads    *)
(* that text, calls no edit, and the document is that text when it         *)
(* returns.                                                                *)
(***************************************************************************)
C16_ReapplicationWarns ==
    \A t \in TurnIds : \A i \in Slots :
        C16_Case(t, i) =>
            /\ NotesOf(t, i) = <<Ev("info", "File <filePath> modified successfully.", t, i)>>
            /\ NotesOf(t, i + 1) =
                  <<Ev("warning",
                       "File modification failed: Could not find the specified oldString in <filePath>.",
                       t, i + 1)>>
            /\ fullText[t][i + 1] =
                  FirstReplaced(fullText[t][i], Instr(t, i).oldString, Instr(t, i).newString)
            /\ CallCount(t, i + 1, "edit") = 0
            /\ idx[t] = i + 1 => docText = fullText[t][i + 1]

\* C16 witness: the instruction removing "c" from "aca", twice in one array;
\* the text is "aa" after both.
C16_Witness ==
    /\ C16_Case("T1", 1)
    /\ Instr("T1", 1).oldString = <<"c">>
    /\ fullText["T1"][1] = <<"a", "c", "a">>
    /\ docText = <<"a", "a">>
    /\ hpc["T1"] = "done"

\* The host operations a modifyFile instruction awaits.
ModifyOps == {"openTextDocument", "showTextDocument", "edit"}

\* The case of C17: a host operation of the complete modifyFile instruction
\* at element i of turn t raised.
C17_Case(t, i) ==
    /\ Begun(t, i)
    /\ Instr(t, i).action = "modifyFile"
    /\ StructurallyComplete(Instr(t, i))
    /\ \E k \in DOMAIN log :
          /\ log[k].ev = "raise"
          /\ log[k].t = t
          /\ log[k].i = i
          /\ log[k].what \in ModifyOps

(***************************************************************************)
(* C17.  When opening the document, showing it or applying the edit raises *)
(* during a complete modifyFile instruction, the call makes exactly one    *)
(* notification, the error 'Error modifying file <filePath>: <message>',   *)
(* no info, and returns normally.                                          *)
(***************************************************************************)
C17_ModifyFailureReported ==
    \A t \in TurnIds : \A i \in Slots :
        C17_Case(t, i) =>
            /\ dpc[t][i] = "returned"
            /\ NotesOf(t, i) =
                  <<Ev("error", "Error modifying file <filePath>: <message>", t, i)>>

\* C17 witness: two modifyFile instructions, showing the document raising
\* for the first and applying the edit raising for the second; the handler
\* has gone through the batch and the document is untouched.
C17_Witness ==
    /\ C17_Case("T1", 1)
    /\ C17_Case("T1", 2)
    /\ Raised("T1", 1, "showTextDocument")
    /\ Raised("T1", 2, "edit")
    /\ hpc["T1"] = "done"
    /\ docText = InitialText

(***************************************************************************)
(* The startChat command.                                                  *)
(***************************************************************************)
\* The command has run to its end without raising.
CommandCompleted ==
    /\ \E k \in DOMAIN log : log[k].t = "startChat"
    /\ \A k \in DOMAIN log : log[k] # ChatEv("raise", "readFileSync")

(***************************************************************************)
(* C18.  When the startChat command has run and no API key is configured,  *)
(* the error 'Gemini API Key not configured. Please set it in VS Code      *)
(* settings.' has been shown and no webview panel has been created.        *)
(***************************************************************************)
C18_NoPanelWithoutApiKey ==
    (~apiKey /\ CommandCompleted) =>
        /\ \E k \in DOMAIN log :
              log[k] = ChatEv("error",
                              "Gemini API Key not configured. Please set it in VS Code settings.")
        /\ panels = 0
        /\ \A k \in DOMAIN log : log[k] # ChatEv("call", "createWebviewPanel")

(***************************************************************************)
(* C19.  When the generation call of a turn fails, the turn ends with the  *)
(* failure's description posted to the chat transcript and an error        *)
(* notification shown, and no instruction dispatched.                      *)
(***************************************************************************)
C19_GenerationFailureSurfaced ==
    \A t \in TurnIds :
        (hpc[t] = "done" /\ Raised(t, 0, "generateContent")) =>
            /\ \E k \in DOMAIN log : log[k] = Ev("post", "Error: <message>", t, 0)
            /\ \E k \in DOMAIN log : log[k].t = t /\ log[k].ev = "error"
            /\ \A i \in Slots : ~Begun(t, i)

\* The error documented for a failed delete or rename.
FileFailureMessage(op) ==
    IF op = "delete" THEN "Error deleting file <filePath>: <message>"
    ELSE "Error renaming file from <oldPath> to <newPath>: <message>"

\* The case of C20: the host operation op (delete, rename) of element i of
\* turn t raised.
C20_Case(t, i, op) ==
    /\ Begun(t, i)
    /\ Instr(t, i).action = (IF op = "delete" THEN "deleteFile" ELSE "renameFile")
    /\ Raised(t, i, op)

(***************************************************************************)
(* C20.  When the delete of a deleteFile or the rename of a renameFile     *)
(* raises, the call makes exactly one notification, the error carrying the *)
(* underlying message (no warning, no info), and has called the failing    *)
(* operation exactly once.                                                 *)
(***************************************************************************)
C20_FileFailureReportedOnce ==
    \A t \in TurnIds : \A i \in Slots : \A op \in {"delete", "rename"} :
        C20_Case(t, i, op) =>
            /\ NotesOf(t, i) = <<Ev("error", FileFailureMessage(op), t, i)>>
            /\ CallCount(t, i, op) = 1
            /\ CallsOf(t, i) = 1

\* C20 witness: a deleteFile whose delete raised, then a renameFile whose
\* rename raised; the handler has returned and the files are as they were.
C20_Witness ==
    /\ C20_Case("T1", 1, "delete")
    /\ C20_Case("T1", 2, "rename")
    /\ Instr("T1", 1) = Complete("deleteFile")
    /\ Instr("T1", 2) = Complete("renameFile")
    /\ hpc["T1"] = "done"
    /\ fileStore["/p"].exists
    /\ ~fileStore["/q"].exists

(***************************************************************************)
(* Presence of a key.                                                      *)
(***************************************************************************)
\* The fields read with presence-of-key semantics.
PresenceFields == {"content", "oldString", "newString"}

\* The case of C21: element i of turn t, dispatched, is a createFile or a
\* modifyFile carrying every required field, with a path, one of whose
\* presence fields is the empty string.
C21_Case(t, i) ==
    /\ Begun(t, i)
    /\ LET x == Instr(t, i)
       IN  /\ StructurallyComplete(x)
           /\ x.action \in {"createFile", "modifyFile"}
           /\ \E k \in PresenceFields \cap Required(x.action) : x[k] = <<>>

(***************************************************************************)
(* C21.  A createFile with a filePath and the empty string as content is   *)
(* complete: the write is called, with empty contents, and when it         *)
(* succeeds the info is made.  A modifyFile whose oldString or newString   *)
(* is the empty string is complete: the document is opened and no warning  *)
(* of a missing field is made.                                             *)
(***************************************************************************)
C21_EmptyStringIsPresent ==
    \A t \in TurnIds : \A i \in Slots :
        C21_Case(t, i) =>
            IF Instr(t, i).action = "createFile"
            THEN /\ CallCount(t, i, "writeFile") = 1
                 /\ (dpc[t][i] = "returned" /\ ~HostFailed(t, i)) =>
                        /\ NotesOf(t, i) =
                              <<Ev("info", "File <filePath> created successfully.", t, i)>>
                        /\ idx[t] = i =>
                              fileStore[Instr(t, i).filePath] =
                                  [exists |-> TRUE, bytes |-> <<>>]
            ELSE /\ CallCount(t, i, "openTextDocument") = 1
                 /\ NoteCount(t, i, "warning") = 1 =>
                        ~Occurs(fullText[t][i], Instr(t, i).oldString)

\* C21 witness: a modifyFile whose oldString is empty, applied at the start
\* of the document, then a createFile whose content is empty, written.
C21_Witness ==
    /\ C21_Case("T1", 1)
    /\ C21_Case("T1", 2)
    /\ Instr("T1", 1).action = "modifyFile"
    /\ Instr("T1", 1).oldString = <<>>
    /\ Instr("T1", 2).action = "createFile"
    /\ NotesOf("T1", 1) = <<Ev("info", MsgModified, "T1", 1)>>
    /\ NotesOf("T1", 2) = <<Ev("info", MsgCreated, "T1", 2)>>
    /\ docText = <<"b", "a", "c", "a">>
    /\ fileStore["/p"] = [exists |-> TRUE, bytes |-> <<>>]

(***************************************************************************)
(* runShellCommand.                                                        *)
(***************************************************************************)
\* Everything logged for element i of turn t, in order.
EventsOf(t, i) == SelectSeq(log, LAMBDA e : e.t = t /\ e.i = i)

\* The calls of createTerminal that returned a terminal.
TerminalsCreated ==
    Len(SelectSeq(log, LAMBDA e : e.ev = "call" /\ e.what = "createTerminal"))
    - Len(SelectSeq(log, LAMBDA e : e.ev = "raise" /\ e.what = "createTerminal"))

\* The case of C22: element i of turn t, dispatched, is a complete
\* runShellCommand none of whose terminal calls raised.
C22_Case(t, i) ==
    /\ Begun(t, i)
    /\ StructurallyComplete(Instr(t, i))
    /\ Instr(t, i).action = "runShellCommand"
    /\ ~HostFailed(t, i)

(***************************************************************************)
(* C22.  A complete runShellCommand instruction whose terminal calls do    *)
(* not raise does, in this order and without awaiting anything: create a   *)
(* terminal, show it, send it the command, show the info 'Executing        *)
(* command: <command>', return.  Every terminal is a new one named 'Gemini *)
(* Command', shown, holding the one command sent to it: there are as many  *)
(* terminals as calls of createTerminal that returned.                     *)
(***************************************************************************)
C22_ShellCommandInOrder ==
    /\ \A t \in TurnIds : \A i \in Slots :
          C22_Case(t, i) =>
              /\ dpc[t][i] = "returned"
              /\ EventsOf(t, i) =
                    <<Begin(t, i), Call("createTerminal", t, i), Call("show", t, i),
                      Call("sendText", t, i),
                      Ev("info", "Executing command: <command>", t, i), Return(t, i)>>
    /\ Len(terminals) = TerminalsCreated
    /\ \A k \in DOMAIN terminals :
          /\ terminals[k].name = "Gemini Command"
          /\ Len(terminals[k].sent) <= 1

\* C22 witness: two runShellCommand instructions in one array, both run:
\* two terminals, each shown and sent the command.
C22_Witness ==
    /\ C22_Case("T1", 1)
    /\ C22_Case("T1", 2)
    /\ terminals = <<[name |-> "Gemini Command", shown |-> TRUE, sent |-> <<"ls">>],
                     [name |-> "Gemini Command", shown |-> TRUE, sent |-> <<"ls">>]>>
    /\ hpc["T1"] = "done"

(***************************************************************************)
(* C23.  The info 'File <filePath> modified successfully.' is made only    *)
(* when the edit was applied: a call whose editor.edit completed reporting *)
(* that the edit was not applied makes no success info.                    *)
(***************************************************************************)
C23_InfoOnlyWhenEditApplied ==
    \A t \in TurnIds : \A i \in Slots :
        (\E k \in DOMAIN log : log[k] = Ev("notApplied", "edit", t, i)) =>
            NoteCount(t, i, "info") = 0

(***************************************************************************)
(* C24.  Whenever the response text has a block tagged json, whatever its  *)
(* interior, the turn ends with the dispatch of its instructions or with   *)
(* the malformed-JSON error, and the code-block path is not entered in     *)
(* that turn.                                                              *)
(***************************************************************************)
C24_JsonPathExcludesCodePath ==
    \A t \in TurnIds :
        (hpc[t] = "done" /\ Answered(t) /\ JsonBlocks(resp[t]) # {}) =>
            /\ \/ \E i \in Slots : Begun(t, i)
               \/ \E k \in DOMAIN log :
                     log[k] = Ev("error", "AI provided malformed JSON instruction(s).", t, 0)
               \/ FirstBlockValues(resp[t]) = <<>> /\ IsArrayTurn(t)
            /\ \A k \in DOMAIN log : ~(log[k].t = t /\ log[k].ev = "codeScan")

(***************************************************************************)
(* One request, one response.                                              *)
(***************************************************************************)
\* The capabilities that change the file store or the document.
StateChangingOps == {"writeFile", "delete", "rename", "edit"}

\* The host calls of element i of turn t, in order.
HostCallsOf(t, i) == SelectSeq(log, LAMBDA e : e.t = t /\ e.i = i /\ e.ev = "call")

(***************************************************************************)
(* C25.  A call of processInstruction makes at most one notification and   *)
(* at most one call of a state-changing capability (write, delete, rename, *)
(* edit), whether its host operations succeed or raise; and it calls no    *)
(* host operation twice.                                                   *)
(***************************************************************************)
C25_AtMostOneNotificationAndChange ==
    \A t \in TurnIds : \A i \in Slots :
        Begun(t, i) =>
            LET calls == HostCallsOf(t, i)
            IN  /\ Len(NotesOf(t, i)) <= 1
                /\ Cardinality({k \in DOMAIN calls : calls[k].what \in StateChangingOps}) <= 1
                /\ \A j, k \in DOMAIN calls : calls[j].what = calls[k].what => j = k

\* C25 witness: a deleteFile whose delete raised, then a modifyFile whose
\* edit was applied: one error and one delete call, one info and one edit
\* call.
C25_Witness ==
    /\ dpc["T1"][1] = "returned"
    /\ dpc["T1"][2] = "returned"
    /\ Raised("T1", 1, "delete")
    /\ NotesOf("T1", 1) = <<Ev("error", MsgDeleteError, "T1", 1)>>
    /\ HostCallsOf("T1", 1) = <<Call("delete", "T1", 1)>>
    /\ NotesOf("T1", 2) = <<Ev("info", MsgModified, "T1", 2)>>
    /\ HostCallsOf("T1", 2) = <<Call("openTextDocument", "T1", 2),
                                Call("showTextDocument", "T1", 2), Call("edit", "T1", 2)>>
    /\ ~HostFailed("T1", 2)

(***************************************************************************)
(* Hangs.                                                                  *)
(***************************************************************************)
\* The case of C26: the call on element i of the array of turn t awaits a
\* host operation that has not completed.
C26_Case(t, i) ==
    /\ Pending(t, i)
    /\ IsArrayTurn(t)

(***************************************************************************)
(* C26.  For as long as the host operation awaited by element i of an      *)
(* array batch has not completed, no notification of element i has been    *)
(* made and no later element of the batch has been dispatched: when the    *)
(* operation never completes, neither ever happens.                        *)
(***************************************************************************)
C26_HangBlocksBatch ==
    \A t \in TurnIds : \A i \in Slots :
        C26_Case(t, i) =>
            /\ NotesOf(t, i) = <<>>
            /\ hpc[t] = "await"
            /\ idx[t] = i
            /\ \A j \in Slots : j > i => ~Begun(t, j)

\* C26 witness: the first of two elements awaits editor.edit, the third
\* host operation of a modifyFile; the second element has not begun.
C26_Witness ==
    /\ C26_Case("T1", 1)
    /\ dpc["T1"][1] = "edit"
    /\ Len(Batch(resp["T1"])) = 2
    /\ dpc["T1"][2] = "none"
    /\ HostCallsOf("T1", 1) = <<Call("openTextDocument", "T1", 1),
                                Call("showTextDocument", "T1", 1), Call("edit", "T1", 1)>>

(***************************************************************************)
(* Termination.  The host is taken to complete every operation it is       *)
(* asked for, by resolving or by rejecting, and the event loop to resume   *)
(* every function whose awaited promise has settled.                       *)
(***************************************************************************)
\* The payload elements of the batches checked for termination: the
\* documented instruction of each action, and null.
FairInstructions == {Complete(a) : a \in Actions} \cup {NullValue}

FairResponses ==
    {<<>>, <<CodeBlock>>, <<JsonBlock(EmptyInterior)>>, <<JsonBlock(MalformedInterior)>>}
    \cup {<<JsonBlock(ArrayInterior(a))>> :
             a \in UNION {[1..n -> FairInstructions] : n \in 0..MaxBatch}}
    \cup {<<JsonBlock(ValueInterior(v))>> : v \in FairInstructions}

InitFair ==
    /\ InitCommon
    /\ apiKey = TRUE
    /\ prompts = {"T1"}
    /\ resp \in {[t \in TurnIds |-> IF t = "T1" THEN r ELSE <<>>] : r \in FairResponses}

\* The host operation awaited by element i of turn t completes.
HostCompletes(t, i) ==
    \/ DeleteSettles(t, i)
    \/ RenameSettles(t, i)
    \/ WriteSettles(t, i)
    \/ OpenSettles(t, i)
    \/ ShowSettles(t, i)
    \/ EditSettles(t, i)

Fairness ==
    \A t \in TurnIds :
        /\ WF_vars(FindFilesSettles(t))
        /\ WF_vars(GenerateSettles(t))
        /\ WF_vars(HandlerResumes(t))
        /\ \A i \in Slots : WF_vars(HostCompletes(t, i))

SpecFair == InitFair /\ [][Next]_vars /\ Fairness

\* The turn t is over: its handler has returned and none of its
\* processInstruction calls awaits a host operation.
TurnFinished(t) ==
    /\ hpc[t] = "done"
    /\ \A i \in Slots : ~Pending(t, i)

(***************************************************************************)
(* C27.  When the generation call and every host operation eventually      *)
(* complete, by succeeding or by raising, every turn started by a prompt   *)
(* message eventually finishes, whatever the batch.                        *)
(***************************************************************************)
C27_TurnTerminates ==
    \A t \in TurnIds : (hpc[t] # "idle") ~> TurnFinished(t)

\* C27 witness: a turn over a batch of two elements, a host operation of the
\* first having raised, is finished with both elements returned.
C27_Witness ==
    /\ TurnFinished("T1")
    /\ Len(Batch(resp["T1"])) = 2
    /\ HostFailed("T1", 1)
    /\ dpc["T1"][1] = "returned"
    /\ dpc["T1"][2] = "returned"
    /\ ~HostFailed("T1", 2)

(***************************************************************************)
(* Turns.                                                                  *)
(***************************************************************************)
\* The processInstruction calls awaiting a host operation.
InFlight == {c \in TurnIds \X Slots : Pending(c[1], c[2])}

\* Entry p of the log is a host call of an instruction of turn t.
BatchCall(p, t) == log[p].t = t /\ log[p].i >= 1 /\ log[p].ev = "call"

(***************************************************************************)
(* C28.  Batches of different turns do not interleave: at most one         *)
(* instruction is in flight at any time, and no host operation of one      *)
(* turn's batch starts between two host operations of another turn's       *)
(* batch.                                                                  *)
(***************************************************************************)
C28_TurnsDoNotInterleave ==
    /\ Cardinality(InFlight) <= 1
    /\ \A t, u \in TurnIds :
          t # u =>
              \A p, q, r \in DOMAIN log :
                  (p < q /\ q < r /\ BatchCall(p, t) /\ BatchCall(r, t)) => ~BatchCall(q, u)

\* The positions of the log at which the response text of turn t is posted
\* to the chat panel.
ResponsePosts(t) == {p \in DOMAIN log : log[p] = Ev("post", "response", t, 0)}

\* The generation call of turn t has succeeded and the handler has run on.
GenerationSucceeded(t) ==
    /\ hpc[t] \in {"await", "insert", "done"}
    /\ ~Raised(t, 0, "generateContent")
    /\ ~Raised(t, 0, "findFiles")

(***************************************************************************)
(* C29.  In every turn whose generation call succeeds, the response text   *)
(* is posted to the chat panel exactly once, before any processInstruction *)
(* call of the turn begins and before any notification of the turn.        *)
(***************************************************************************)
C29_ResponsePostedFirst ==
    \A t \in TurnIds :
        GenerationSucceeded(t) =>
            LET posts == ResponsePosts(t)
                first == CHOOSE q \in posts : TRUE
            IN  /\ Cardinality(posts) = 1
                /\ \A p \in 1..first :
                      log[p].t = t => (log[p].ev \notin Severities /\ log[p].i = 0)

\* C29 witness: a turn over an array of two elements has returned, both
\* dispatched and both having notified; the text was posted once.
C29_Witness ==
    /\ GenerationSucceeded("T1")
    /\ hpc["T1"] = "done"
    /\ IsArrayTurn("T1")
    /\ NotesOf("T1", 1) # <<>>
    /\ NotesOf("T1", 2) # <<>>
    /\ Cardinality(ResponsePosts("T1")) = 1

(***************************************************************************)
(* Frame of modifyFile.                                                    *)
(***************************************************************************)
\* The step is one of the processInstruction call on element i of turn t,
\* and that element is a modifyFile instruction.
ModifyStep(t, i) ==
    /\ dpc'[t][i] # dpc[t][i]
    /\ Instr(t, i).kind = "object"
    /\ "action" \in Instr(t, i).has
    /\ Instr(t, i).action = "modifyFile"

(***************************************************************************)
(* C30.  No step of the dispatch of a modifyFile instruction, whatever its *)
(* fields and its outcome, changes the file store or creates a terminal,   *)
(* and the host calls it makes are only those on the document: open, show, *)
(* edit.                                                                   *)
(***************************************************************************)
C30_ModifyFileFrame ==
    [][\A t \in TurnIds : \A i \in Slots :
          ModifyStep(t, i) =>
              /\ fileStore' = fileStore
              /\ terminals' = terminals
              /\ \A k \in (Len(log) + 1)..Len(log') :
                    (log'[k].t = t /\ log'[k].i = i /\ log'[k].ev = "call") =>
                        log'[k].what \in ModifyOps]_vars

\* C30 witness: a modifyFile whose edit was applied and one whose edit
\* raised have both returned; the document changed, the files are as they
\* were and no terminal exists.
C30_Witness ==
    /\ dpc["T1"][1] = "returned"
    /\ dpc["T1"][2] = "returned"
    /\ Instr("T1", 1) = Complete("modifyFile")
    /\ Instr("T1", 2).action = "modifyFile"
    /\ ~HostFailed("T1", 1)
    /\ Raised("T1", 2, "edit")
    /\ docText # InitialText
    /\ fileStore = [p \in Paths |-> IF p = "/p" THEN [exists |-> TRUE, bytes |-> <<"o">>]
                                     ELSE NoFile]
    /\ terminals = <<>>

====
